---- MODULE Spec2Model ----
(***************************************************************************)
(* Validation contract of backend/app/models/recipe.py.                    *)
(*                                                                         *)
(* Every class of the file is a pydantic (v2) BaseModel.  Constructing one *)
(* validates each declared field in declaration order: the declarative     *)
(* Field constraints first, then the field's "after" field_validator.      *)
(* The failures of all fields are collected into one ValidationError.      *)
(*                                                                         *)
(* A Python str is a sequence of one-character strings.                    *)
(* A payload field is  Absent (key not supplied), Null (JSON null) or      *)
(* Val(x); a stored Optional field is None or Some(x).                     *)
(***************************************************************************)
EXTENDS Integers, Sequences, FiniteSets, TLC

VARIABLES cls, input, op, errors, obj, prev

vars == <<cls, input, op, errors, obj, prev>>

(***************************************************************************)
(* Bounds of the explored inputs.                                          *)
(***************************************************************************)
MaxPad == 2
MaxListLen == 3
MaxAmount == 2
ScoreScale == 1000

(***************************************************************************)
(* Payload and Optional encodings.                                         *)
(***************************************************************************)
Absent == {}
Null == {{}}
Val(x) == {{x}}
None == {}
Some(x) == {x}
Unwrap(f) == CHOOSE x \in UNION f : TRUE
The(o) == CHOOSE x \in o : TRUE

Ok(v) == [ok |-> TRUE, value |-> v]
Fail(m, c) == [ok |-> FALSE, msg |-> m, ctx |-> c]

(***************************************************************************)
(* Python str operations.                                                  *)
(***************************************************************************)
Whitespace == {" ", "\t", "\n"}

UPPER == <<"A","B","C","D","E","F","G","H","I","J","K","L","M",
           "N","O","P","Q","R","S","T","U","V","W","X","Y","Z">>
LOWER == <<"a","b","c","d","e","f","g","h","i","j","k","l","m",
           "n","o","p","q","r","s","t","u","v","w","x","y","z">>

SetMin(S) == CHOOSE m \in S : \A n \in S : m <= n
SetMax(S) == CHOOSE m \in S : \A n \in S : n <= m

\* str.strip(): drop the leading and the trailing whitespace characters
strip(s) ==
    LET keep == {i \in 1..Len(s) : s[i] \notin Whitespace}
    IN  IF keep = {} THEN <<>> ELSE SubSeq(s, SetMin(keep), SetMax(keep))

\* str.lower(), character by character
lower(s) ==
    [i \in 1..Len(s) |->
        IF \E k \in 1..Len(UPPER) : UPPER[k] = s[i]
        THEN LOWER[CHOOSE k \in 1..Len(UPPER) : UPPER[k] = s[i]]
        ELSE s[i]]

\* the entries of l at the positions idx, in their order
Select(l, idx) ==
    LET nth(k) == CHOOSE i \in idx : Cardinality({j \in idx : j < i}) = k - 1
    IN  [k \in 1..Cardinality(idx) |-> l[nth(k)]]

\* [x.strip() for x in l]
Stripped(l) == [i \in 1..Len(l) |-> strip(l[i])]

\* [x.lower() for x in l]
Lowered(l) == [i \in 1..Len(l) |-> lower(l[i])]

\* the positions of the entries kept by "if x.strip()"
NonBlankAt(l) == {i \in 1..Len(l) : strip(l[i]) # <<>>}

(***************************************************************************)
(* pydantic field handling (declarative part of a Field).                  *)
(***************************************************************************)
\* a required str field with min_length / max_length
StrField(raw, minLen, maxLen) ==
    IF raw = Absent THEN Fail("missing", <<>>)
    ELSE IF raw = Null THEN Fail("string_type", <<>>)
    ELSE LET s == Unwrap(raw)
         IN  IF Len(s) < minLen THEN Fail("string_too_short", <<>>)
             ELSE IF Len(s) > maxLen THEN Fail("string_too_long", <<>>)
             ELSE Ok(s)

\* a required field without constraints
RequiredField(raw) ==
    IF raw = Absent THEN Fail("missing", <<>>)
    ELSE IF raw = Null THEN Fail("none_not_allowed", <<>>)
    ELSE Ok(Unwrap(raw))

\* Optional[...] = Field(None): absent and null both give None
OptionalField(raw) ==
    IF raw = Absent \/ raw = Null THEN Ok(None) ELSE Ok(Some(Unwrap(raw)))

\* an "after" field_validator runs only when the declarative part passed
Passed(r) == r.ok

\* the ValidationError: one entry for every field that failed
ErrorsOf(results) ==
    {[loc |-> f, msg |-> results[f].msg, ctx |-> results[f].ctx] :
        f \in {g \in DOMAIN results : ~results[g].ok}}

ObjectOf(results) ==
    IF ErrorsOf(results) = {} THEN Some([f \in DOMAIN results |-> results[f].value])
    ELSE None

(***************************************************************************)
(* RecipeAnalysisRequest                                                   *)
(***************************************************************************)
RecipeAnalysisRequest_min_length == 1
RecipeAnalysisRequest_max_length == 200

\* variant: the name is checked but returned as given
validate_recipe_name_nostrip(v) ==
    IF v = <<>> \/ strip(v) = <<>>
    THEN Fail("Recipe name cannot be empty", <<>>)
    ELSE Ok(v)

validate_recipe_name(v) ==
    IF v = <<>> \/ strip(v) = <<>>
    THEN Fail("Recipe name cannot be empty", <<>>)
    ELSE Ok(strip(v))

RecipeAnalysisRequest(p) ==
    LET name == StrField(p.recipe_name, RecipeAnalysisRequest_min_length,
                         RecipeAnalysisRequest_max_length)
    IN  [recipe_name |->
            IF Passed(name) THEN validate_recipe_name(name.value) ELSE name]

(***************************************************************************)
(* FullAnalysisRequest                                                     *)
(***************************************************************************)
FullAnalysisRequest_min_length == 1
FullAnalysisRequest_max_length == 200

validate_recipe_name_full(v) ==
    IF v = <<>> \/ strip(v) = <<>>
    THEN Fail("Recipe name cannot be empty", <<>>)
    ELSE Ok(strip(v))

\* variant: [ing.strip() for ing in v], blank entries kept
validate_ingredients_keepblank(v) ==
    IF v # None
    THEN LET w == Stripped(The(v))
         IN  IF Len(w) = 0
             THEN Fail("Ingredients list cannot be empty if provided", <<>>)
             ELSE Ok(Some(w))
    ELSE Ok(v)

\* variant: [ing for ing in v if ing.strip()], entries not trimmed
validate_ingredients_nostrip(v) ==
    IF v # None
    THEN LET w == Select(The(v), NonBlankAt(The(v)))
         IN  IF Len(w) = 0
             THEN Fail("Ingredients list cannot be empty if provided", <<>>)
             ELSE Ok(Some(w))
    ELSE Ok(v)

\* variant: [ing.strip() for ing in v if ing], only empty entries dropped
validate_ingredients_rawfilter(v) ==
    IF v # None
    THEN LET w == Stripped(Select(The(v), {i \in 1..Len(The(v)) : The(v)[i] # <<>>}))
         IN  IF Len(w) = 0
             THEN Fail("Ingredients list cannot be empty if provided", <<>>)
             ELSE Ok(Some(w))
    ELSE Ok(v)

validate_ingredients(v) ==
    IF v # None
    THEN LET w == Stripped(Select(The(v), NonBlankAt(The(v))))
         IN  IF Len(w) = 0
             THEN Fail("Ingredients list cannot be empty if provided", <<>>)
             ELSE Ok(Some(w))
    ELSE Ok(v)

valid_allergens ==
    { <<"m","i","l","k">>, <<"e","g","g","s">>,
      <<"p","e","a","n","u","t","s">>, <<"t","r","e","e","_","n","u","t","s">>,
      <<"s","o","y">>, <<"w","h","e","a","t">>, <<"f","i","s","h">>,
      <<"s","h","e","l","l","f","i","s","h">> }

\* variant: entries outside the set are dropped instead of rejected
validate_allergens_partial(v) ==
    IF v # None
    THEN LET w == Lowered(Stripped(Select(The(v), NonBlankAt(The(v)))))
         IN  Ok(Some(Select(w, {i \in 1..Len(w) : w[i] \in valid_allergens})))
    ELSE Ok(v)

validate_allergens(v) ==
    IF v # None
    THEN LET w == Lowered(Stripped(Select(The(v), NonBlankAt(The(v)))))
             bad == {i \in 1..Len(w) : w[i] \notin valid_allergens}
         IN  IF bad # {}
             THEN Fail("Invalid allergen", w[SetMin(bad)])
             ELSE Ok(Some(w))
    ELSE Ok(v)

\* variant: validation stops at the first field that fails
FullAnalysisRequest_failfast(p) ==
    LET name == StrField(p.recipe_name, FullAnalysisRequest_min_length,
                         FullAnalysisRequest_max_length)
        recipe_name ==
            IF Passed(name) THEN validate_recipe_name_full(name.value) ELSE name
        ingredients ==
            IF p.ingredients = Absent \/ ~recipe_name.ok THEN Ok(None)
            ELSE validate_ingredients(OptionalField(p.ingredients).value)
        allergens ==
            IF p.allergens = Absent \/ ~recipe_name.ok \/ ~ingredients.ok THEN Ok(None)
            ELSE validate_allergens(OptionalField(p.allergens).value)
    IN  [recipe_name |-> recipe_name, ingredients |-> ingredients,
         allergens |-> allergens,
         avoid_ingredients |-> OptionalField(p.avoid_ingredients)]

\* a field left at its default is not validated
FullAnalysisRequest(p) ==
    LET name == StrField(p.recipe_name, FullAnalysisRequest_min_length,
                         FullAnalysisRequest_max_length)
        ingredients == OptionalField(p.ingredients)
        allergens == OptionalField(p.allergens)
    IN  [recipe_name |->
            IF Passed(name) THEN validate_recipe_name_full(name.value) ELSE name,
         ingredients |->
            IF p.ingredients # Absent /\ Passed(ingredients)
            THEN validate_ingredients(ingredients.value) ELSE ingredients,
         allergens |->
            IF p.allergens # Absent /\ Passed(allergens)
            THEN validate_allergens(allergens.value) ELSE allergens,
         avoid_ingredients |-> OptionalField(p.avoid_ingredients)]

(***************************************************************************)
(* RecipeBasic and RecipeRecommendation                                    *)
(***************************************************************************)
\* List[str] = Field(default_factory=list)
ListField(raw) ==
    IF raw = Absent THEN Ok(<<>>)
    ELSE IF raw = Null THEN Fail("list_type", <<>>)
    ELSE Ok(Unwrap(raw))

RecipeBasic(p) ==
    [id |-> RequiredField(p.id),
     name |-> RequiredField(p.name),
     cuisine |-> OptionalField(p.cuisine),
     diet_type |-> OptionalField(p.diet_type),
     ingredients |-> ListField(p.ingredients),
     instructions |-> OptionalField(p.instructions),
     prep_time |-> OptionalField(p.prep_time),
     cook_time |-> OptionalField(p.cook_time),
     servings |-> OptionalField(p.servings)]

\* recipe: RecipeBasic = Field(...): valid when the nested construction is
RecipeField(raw) ==
    IF raw = Absent THEN Fail("missing", <<>>)
    ELSE IF raw = Null THEN Fail("model_type", <<>>)
    ELSE LET r == RecipeBasic(Unwrap(raw))
         IN  IF ErrorsOf(r) # {} THEN Fail("nested", <<>>) ELSE Ok(The(ObjectOf(r)))

\* scores are counted in units of 1/ScoreScale
score_ge == 0
score_le == 100

\* variant: exclusive bounds (gt / lt)
FloatField_strict(raw, ge, le) ==
    IF raw = Absent THEN Fail("missing", <<>>)
    ELSE IF raw = Null THEN Fail("float_type", <<>>)
    ELSE LET x == Unwrap(raw)
         IN  IF ~(x > ge) THEN Fail("greater_than_equal", <<>>)
             ELSE IF ~(x < le) THEN Fail("less_than_equal", <<>>)
             ELSE Ok(x)

\* float = Field(..., ge=, le=)
FloatField(raw, ge, le) ==
    IF raw = Absent THEN Fail("missing", <<>>)
    ELSE IF raw = Null THEN Fail("float_type", <<>>)
    ELSE LET x == Unwrap(raw)
         IN  IF ~(x >= ge) THEN Fail("greater_than_equal", <<>>)
             ELSE IF ~(x <= le) THEN Fail("less_than_equal", <<>>)
             ELSE Ok(x)

\* Optional[float] = Field(None, ge=, le=): the default is not validated
OptionalFloatField(raw, ge, le) ==
    IF raw = Absent \/ raw = Null THEN Ok(None)
    ELSE LET r == FloatField(raw, ge, le)
         IN  IF r.ok THEN Ok(Some(r.value)) ELSE r

RecipeRecommendation(p) ==
    [recipe |-> RecipeField(p.recipe),
     similarity_score |->
        FloatField(p.similarity_score, score_ge * ScoreScale, score_le * ScoreScale),
     health_score |->
        FloatField(p.health_score, score_ge * ScoreScale, score_le * ScoreScale),
     relevance_score |->
        OptionalFloatField(p.relevance_score, score_ge * ScoreScale,
                           score_le * ScoreScale),
     reason |-> RequiredField(p.reason)]

(***************************************************************************)
(* RecipeSearchFilters                                                     *)
(***************************************************************************)
calories_ge == 0
protein_ge == 0

\* Optional[int|float] = Field(None, ge=)
OptionalNumField(raw, ge) ==
    IF raw = Absent \/ raw = Null THEN Ok(None)
    ELSE LET x == Unwrap(raw)
         IN  IF ~(x >= ge) THEN Fail("greater_than_equal", <<>>) ELSE Ok(Some(x))

\* info.data: the fields validated so far that passed
InfoData(results) ==
    [f \in {g \in DOMAIN results : results[g].ok} |-> results[f].value]

\* variant: equal bounds rejected
validate_calorie_range_strict(v, data) ==
    IF v # None /\ "min_calories" \in DOMAIN data /\ data["min_calories"] # None
    THEN IF The(v) <= The(data["min_calories"])
         THEN Fail("max_calories must be greater than min_calories", <<>>)
         ELSE Ok(v)
    ELSE Ok(v)

validate_calorie_range(v, data) ==
    IF v # None /\ "min_calories" \in DOMAIN data /\ data["min_calories"] # None
    THEN IF The(v) < The(data["min_calories"])
         THEN Fail("max_calories must be greater than min_calories", <<>>)
         ELSE Ok(v)
    ELSE Ok(v)

validate_protein_range(v, data) ==
    IF v # None /\ "min_protein" \in DOMAIN data /\ data["min_protein"] # None
    THEN IF The(v) < The(data["min_protein"])
         THEN Fail("max_protein must be greater than min_protein", <<>>)
         ELSE Ok(v)
    ELSE Ok(v)

\* a field left at its default is not validated
RecipeSearchFilters(p) ==
    LET r1 == [cuisine |-> OptionalField(p.cuisine),
               diet_type |-> OptionalField(p.diet_type),
               min_calories |-> OptionalNumField(p.min_calories, calories_ge)]
        maxc == OptionalNumField(p.max_calories, calories_ge)
        max_calories ==
            IF p.max_calories # Absent /\ Passed(maxc)
            THEN validate_calorie_range(maxc.value, InfoData(r1)) ELSE maxc
        r2 == [cuisine |-> r1.cuisine, diet_type |-> r1.diet_type,
               min_calories |-> r1.min_calories, max_calories |-> max_calories,
               min_protein |-> OptionalNumField(p.min_protein, protein_ge)]
        maxp == OptionalNumField(p.max_protein, protein_ge)
        max_protein ==
            IF p.max_protein # Absent /\ Passed(maxp)
            THEN validate_protein_range(maxp.value, InfoData(r2)) ELSE maxp
    IN  [cuisine |-> r2.cuisine, diet_type |-> r2.diet_type,
         min_calories |-> r2.min_calories, max_calories |-> r2.max_calories,
         min_protein |-> r2.min_protein, max_protein |-> max_protein]

(***************************************************************************)
(* QuickMealFilters                                                        *)
(***************************************************************************)
max_prep_time_default == 5
max_prep_time_ge == 1
max_prep_time_le == 30
max_ingredients_default == 3
max_ingredients_ge == 1
max_ingredients_le == 10
max_cost_ge == 10
max_cost_le == 500
\* variant: a default beyond the upper bound
max_cost_default_outside == max_cost_le + 1
max_cost_default == 100

\* int = Field(default, ge=, le=): the default is not validated
IntField(raw, default, ge, le) ==
    IF raw = Absent THEN Ok(default)
    ELSE IF raw = Null THEN Fail("int_type", <<>>)
    ELSE LET x == Unwrap(raw)
         IN  IF ~(x >= ge) THEN Fail("greater_than_equal", <<>>)
             ELSE IF ~(x <= le) THEN Fail("less_than_equal", <<>>)
             ELSE Ok(x)

\* bool = Field(default)
BoolField(raw, default) ==
    IF raw = Absent THEN Ok(default)
    ELSE IF raw = Null THEN Fail("bool_type", <<>>)
    ELSE Ok(Unwrap(raw))

QuickMealFilters(p) ==
    [max_prep_time |->
        IntField(p.max_prep_time, max_prep_time_default, max_prep_time_ge,
                 max_prep_time_le),
     max_ingredients |->
        IntField(p.max_ingredients, max_ingredients_default, max_ingredients_ge,
                 max_ingredients_le),
     max_cost |-> IntField(p.max_cost, max_cost_default, max_cost_ge, max_cost_le),
     hostel_friendly |-> BoolField(p.hostel_friendly, TRUE),
     cuisine |-> OptionalField(p.cuisine),
     diet_type |-> OptionalField(p.diet_type)]

(***************************************************************************)
(* model_dump(): the stored fields as a payload for a new construction.    *)
(***************************************************************************)
DumpOptional(o) == {o}

Dump(c, o) ==
    CASE c = "RecipeAnalysisRequest" -> [recipe_name |-> Val(o.recipe_name)]
      [] c = "FullAnalysisRequest" ->
            [recipe_name |-> Val(o.recipe_name),
             ingredients |-> DumpOptional(o.ingredients),
             allergens |-> DumpOptional(o.allergens),
             avoid_ingredients |-> DumpOptional(o.avoid_ingredients)]
      [] c = "RecipeRecommendation" ->
            [recipe |->
                Val([id |-> Val(o.recipe.id), name |-> Val(o.recipe.name),
                     cuisine |-> DumpOptional(o.recipe.cuisine),
                     diet_type |-> DumpOptional(o.recipe.diet_type),
                     ingredients |-> Val(o.recipe.ingredients),
                     instructions |-> DumpOptional(o.recipe.instructions),
                     prep_time |-> DumpOptional(o.recipe.prep_time),
                     cook_time |-> DumpOptional(o.recipe.cook_time),
                     servings |-> DumpOptional(o.recipe.servings)]),
             similarity_score |-> Val(o.similarity_score),
             health_score |-> Val(o.health_score),
             relevance_score |-> DumpOptional(o.relevance_score),
             reason |-> Val(o.reason)]
      [] c = "RecipeSearchFilters" ->
            [cuisine |-> DumpOptional(o.cuisine),
             diet_type |-> DumpOptional(o.diet_type),
             min_calories |-> DumpOptional(o.min_calories),
             max_calories |-> DumpOptional(o.max_calories),
             min_protein |-> DumpOptional(o.min_protein),
             max_protein |-> DumpOptional(o.max_protein)]
      [] c = "QuickMealFilters" ->
            [max_prep_time |-> Val(o.max_prep_time),
             max_ingredients |-> Val(o.max_ingredients),
             max_cost |-> Val(o.max_cost),
             hostel_friendly |-> Val(o.hostel_friendly),
             cuisine |-> DumpOptional(o.cuisine),
             diet_type |-> DumpOptional(o.diet_type)]

Validate(c, p) ==
    CASE c = "RecipeAnalysisRequest" -> RecipeAnalysisRequest(p)
      [] c = "FullAnalysisRequest" -> FullAnalysisRequest(p)
      [] c = "RecipeRecommendation" -> RecipeRecommendation(p)
      [] c = "RecipeSearchFilters" -> RecipeSearchFilters(p)
      [] c = "QuickMealFilters" -> QuickMealFilters(p)

(***************************************************************************)
(* The payloads explored.                                                  *)
(***************************************************************************)
Rep(c, n) == [i \in 1..n |-> c]
Options(S) == {Absent, Null} \cup {Val(x) : x \in S}
ListsUpTo(S, n) == UNION {[1..k -> S] : k \in 0..n}

Cores ==
    { <<"a">>, <<"a", " ", "b">>,
      Rep("a", FullAnalysisRequest_max_length - 1),
      Rep("a", FullAnalysisRequest_max_length),
      Rep("a", FullAnalysisRequest_max_length + 1) }

NameInputs ==
    {Rep(" ", l) \o c \o Rep("\t", r) : l \in 0..MaxPad, r \in 0..MaxPad, c \in Cores}
    \cup {Rep(" ", k) : k \in 0..MaxPad}
    \cup {Rep("\n", FullAnalysisRequest_max_length + 1)}

Rice == <<"r","i","c","e">>
Dal == <<"d","a","l">>
Milk == <<"m","i","l","k">>
Nuts == <<"n","u","t","s">>
Sugar == <<"s","u","g","a","r">>
Indian == <<"I","n","d","i","a","n">>
Vegan == <<"v","e","g","a","n">>

IngredientEntries ==
    { <<>>, <<" ", " ">>, Rice, <<" ">> \o Rice \o <<"\t">>,
      <<"O","l","i","v","e"," ","o","i","l","\n">> }

AllergenEntries ==
    { <<>>, <<"\t">>, Milk, <<" ","M","i","l","k"," ">>, <<"E","G","G","S">>,
      <<"t","r","e","e","_","n","u","t","s">>, <<"t","r","e","e"," ","n","u","t","s">>,
      Nuts }

AvoidEntries == { <<>>, <<" ">> \o Sugar \o <<" ">>, Sugar, <<"B","u","t","t","e","r">> }

FewNames == { <<"a">>, <<" ">> }
FewIngredients == {Absent, Val(<<Rice>>), Val(<<<<" ">>>>)}
FewAllergens == {Absent, Val(<<Milk>>), Val(<<Nuts>>)}
FewAvoid == {Absent, Val(<<<<" ">> \o Sugar>>)}

RecipeAnalysisRequestPayloads == {[recipe_name |-> n] : n \in Options(NameInputs)}

FullAnalysisRequestPayloads ==
    {[recipe_name |-> n, ingredients |-> i, allergens |-> a, avoid_ingredients |-> v] :
        n \in Options(NameInputs), i \in FewIngredients, a \in FewAllergens,
        v \in FewAvoid}
    \cup
    {[recipe_name |-> Val(n), ingredients |-> i, allergens |-> Absent,
      avoid_ingredients |-> Absent] :
        n \in FewNames, i \in Options(ListsUpTo(IngredientEntries, MaxListLen))}
    \cup
    {[recipe_name |-> Val(n), ingredients |-> Absent, allergens |-> a,
      avoid_ingredients |-> Absent] :
        n \in FewNames, a \in Options(ListsUpTo(AllergenEntries, MaxListLen))}
    \cup
    {[recipe_name |-> Val(n), ingredients |-> Absent, allergens |-> Absent,
      avoid_ingredients |-> v] :
        n \in FewNames, v \in Options(ListsUpTo(AvoidEntries, MaxListLen))}

RecipeBasicPayloads ==
    { [id |-> Val(<<"1">>), name |-> Val(Dal), cuisine |-> Val(Indian),
       diet_type |-> Val(Vegan), ingredients |-> Val(<<Dal, Rice>>),
       instructions |-> Null, prep_time |-> Val(15), cook_time |-> Val(30),
       servings |-> Absent],
      [id |-> Val(<<"2">>), name |-> Val(Rice), cuisine |-> Absent,
       diet_type |-> Absent, ingredients |-> Absent, instructions |-> Absent,
       prep_time |-> Absent, cook_time |-> Absent, servings |-> Absent],
      [id |-> Absent, name |-> Val(Rice), cuisine |-> Absent,
       diet_type |-> Absent, ingredients |-> Absent, instructions |-> Absent,
       prep_time |-> Absent, cook_time |-> Absent, servings |-> Absent] }

ScoreInputs ==
    Options({ -1, 0, 1, score_le * ScoreScale - 1, score_le * ScoreScale,
              score_le * ScoreScale + 1 })

RecipeRecommendationPayloads ==
    {[recipe |-> r, similarity_score |-> s, health_score |-> h,
      relevance_score |-> v, reason |-> w] :
        r \in Options(RecipeBasicPayloads), s \in ScoreInputs, h \in ScoreInputs,
        v \in ScoreInputs, w \in {Absent, Val(Rice)}}

AmountInputs == Options(-1..MaxAmount)

RecipeSearchFiltersPayloads ==
    {[cuisine |-> c, diet_type |-> d, min_calories |-> a, max_calories |-> b,
      min_protein |-> x, max_protein |-> y] :
        c \in {Absent, Val(Indian)}, d \in {Null, Val(Vegan)},
        a \in AmountInputs, b \in AmountInputs, x \in AmountInputs, y \in AmountInputs}

Around(d, ge, le) == Options({ge - 1, ge, d, le, le + 1})

QuickMealFiltersPayloads ==
    {[max_prep_time |-> t, max_ingredients |-> n, max_cost |-> m,
      hostel_friendly |-> h, cuisine |-> c, diet_type |-> d] :
        t \in Around(max_prep_time_default, max_prep_time_ge, max_prep_time_le),
        n \in Around(max_ingredients_default, max_ingredients_ge, max_ingredients_le),
        m \in Around(max_cost_default, max_cost_ge, max_cost_le),
        h \in {Absent, Val(TRUE), Val(FALSE)},
        c \in {Absent, Null, Val(Indian)}, d \in {Absent, Val(Vegan)}}

(***************************************************************************)
(* The state machine: one construction from a payload, then possibly a     *)
(* second construction from the stored fields of the first object.         *)
(***************************************************************************)
Init ==
    /\ cls = "none"
    /\ input = <<>>
    /\ op = "idle"
    /\ errors = {}
    /\ obj = None
    /\ prev = None

\* the outcome of a construction: the object, or the aggregated failure
Outcome(c, p, results) ==
    /\ cls' = c
    /\ input' = p
    /\ errors' = ErrorsOf(results)
    /\ obj' = ObjectOf(results)

ConstructRecipeAnalysisRequest ==
    \E p \in RecipeAnalysisRequestPayloads :
        /\ op = "idle"
        /\ op' = "construct"
        /\ Outcome("RecipeAnalysisRequest", p, RecipeAnalysisRequest(p))
        /\ UNCHANGED prev

ConstructFullAnalysisRequest ==
    \E p \in FullAnalysisRequestPayloads :
        /\ op = "idle"
        /\ op' = "construct"
        /\ Outcome("FullAnalysisRequest", p, FullAnalysisRequest(p))
        /\ UNCHANGED prev

ConstructRecipeRecommendation ==
    \E p \in RecipeRecommendationPayloads :
        /\ op = "idle"
        /\ op' = "construct"
        /\ Outcome("RecipeRecommendation", p, RecipeRecommendation(p))
        /\ UNCHANGED prev

ConstructRecipeSearchFilters ==
    \E p \in RecipeSearchFiltersPayloads :
        /\ op = "idle"
        /\ op' = "construct"
        /\ Outcome("RecipeSearchFilters", p, RecipeSearchFilters(p))
        /\ UNCHANGED prev

ConstructQuickMealFilters ==
    \E p \in QuickMealFiltersPayloads :
        /\ op = "idle"
        /\ op' = "construct"
        /\ Outcome("QuickMealFilters", p, QuickMealFilters(p))
        /\ UNCHANGED prev

\* Model(**first.model_dump())
Rebuild ==
    /\ op = "construct"
    /\ obj # None
    /\ op' = "rebuild"
    /\ Outcome(cls, Dump(cls, The(obj)), Validate(cls, Dump(cls, The(obj))))
    /\ prev' = obj

Next ==
    \/ ConstructRecipeAnalysisRequest
    \/ ConstructFullAnalysisRequest
    \/ ConstructRecipeRecommendation
    \/ ConstructRecipeSearchFilters
    \/ ConstructQuickMealFilters
    \/ Rebuild

Spec == Init /\ [][Next]_vars

(***************************************************************************)
(* Vocabulary of the properties, stated without the program's operators.   *)
(***************************************************************************)
ErrorLocs == {e.loc : e \in errors}
Supplied(raw) == raw # Absent /\ raw # Null

IsBlank(s) == \A i \in 1..Len(s) : s[i] \in Whitespace
IsTrimmed(s) == s # <<>> => (s[1] \notin Whitespace /\ s[Len(s)] \notin Whitespace)
LeadingWs(s) == Cardinality({i \in 1..Len(s) : \A j \in 1..i : s[j] \in Whitespace})
TrailingWs(s) ==
    Cardinality({i \in 1..Len(s) : \A j \in i..Len(s) : s[j] \in Whitespace})
CoreLen(s) == Len(s) - LeadingWs(s) - TrailingWs(s)

\* t is s without the whitespace around it
IsCoreOf(t, s) ==
    /\ IsTrimmed(t)
    /\ Len(t) <= Len(s)
    /\ \E l \in 0..(Len(s) - Len(t)) :
          /\ \A i \in 1..l : s[i] \in Whitespace
          /\ \A i \in 1..Len(t) : s[l + i] = t[i]
          /\ \A i \in (l + Len(t) + 1)..Len(s) : s[i] \in Whitespace

SameLetter(c, d) == c = d \/ \E k \in 1..Len(UPPER) : UPPER[k] = c /\ LOWER[k] = d
IsLowercase(s) == \A i \in 1..Len(s) : \A k \in 1..Len(UPPER) : s[i] # UPPER[k]

AllergenNames ==
    { <<"m","i","l","k">>, <<"e","g","g","s">>, <<"p","e","a","n","u","t","s">>,
      <<"t","r","e","e","_","n","u","t","s">>, <<"s","o","y">>,
      <<"w","h","e","a","t">>, <<"f","i","s","h">>,
      <<"s","h","e","l","l","f","i","s","h">> }

\* e names an allergen of the set, up to case and surrounding whitespace
NamesAllergen(e) ==
    \E a \in AllergenNames :
        /\ Len(a) <= Len(e)
        /\ \E l \in 0..(Len(e) - Len(a)) :
              /\ \A i \in 1..l : e[i] \in Whitespace
              /\ \A i \in 1..Len(a) : SameLetter(e[l + i], a[i])
              /\ \A i \in (l + Len(a) + 1)..Len(e) : e[i] \in Whitespace

NameRequest == op = "construct" /\ cls \in {"RecipeAnalysisRequest", "FullAnalysisRequest"}
FullRequest == op = "construct" /\ cls = "FullAnalysisRequest"

(***************************************************************************)
(* C1                                                                      *)
(***************************************************************************)
NameStoredAsCore(s) ==
    /\ "recipe_name" \notin ErrorLocs
    /\ cls = "RecipeAnalysisRequest" => obj # None
    /\ obj # None => IsCoreOf(The(obj).recipe_name, s)

\* C1 as stated: a recipe_name whose core (the text between the surrounding
\* whitespace) has 1 to 200 characters is accepted and stored as that core,
\* however much whitespace surrounds it; a blank recipe_name fails.
C1_AnyPadding ==
    (NameRequest /\ Supplied(input.recipe_name)) =>
        LET s == Unwrap(input.recipe_name)
        IN  /\ (~IsBlank(s) /\ CoreLen(s) <= 200) => NameStoredAsCore(s)
            /\ IsBlank(s) => (obj = None /\ "recipe_name" \in ErrorLocs)

\* C1 amended: a recipe_name of at most 200 characters in all, the surrounding
\* whitespace counted, whose core is not empty is accepted and stored as its
\* core; a longer one fails whatever its core; a blank recipe_name fails.
C1_PaddingWithinLimit ==
    (NameRequest /\ Supplied(input.recipe_name)) =>
        LET s == Unwrap(input.recipe_name)
        IN  /\ (~IsBlank(s) /\ Len(s) <= 200) => NameStoredAsCore(s)
            /\ Len(s) > 200 => (obj = None /\ "recipe_name" \in ErrorLocs)
            /\ IsBlank(s) => (obj = None /\ "recipe_name" \in ErrorLocs)

C1_Witness ==
    /\ FullRequest
    /\ obj # None
    /\ Len(Unwrap(input.recipe_name)) > Len(The(obj).recipe_name)
    /\ Len(Unwrap(input.recipe_name)) = 200

(***************************************************************************)
(* C2                                                                      *)
(***************************************************************************)
StoredAllergensValid ==
    (obj # None /\ The(obj).allergens # None) =>
        \A i \in 1..Len(The(The(obj).allergens)) :
            LET a == The(The(obj).allergens)[i]
            IN  a \in AllergenNames /\ IsLowercase(a) /\ IsTrimmed(a)

\* C2 as stated: the stored allergens are lowercase, trimmed members of the
\* set, and any input entry outside the set (after trimming and lowercasing)
\* makes the whole construction fail.
C2_AnyEntryOutside ==
    (FullRequest /\ Supplied(input.allergens)) =>
        LET l == Unwrap(input.allergens)
        IN  /\ StoredAllergensValid
            /\ (\E i \in 1..Len(l) : ~NamesAllergen(l[i])) => obj = None

\* C2 amended: the stored allergens are lowercase, trimmed members of the set,
\* and any input entry that is not blank and is outside the set makes the whole
\* construction fail; blank entries are dropped.
C2_NonBlankEntryOutside ==
    (FullRequest /\ Supplied(input.allergens)) =>
        LET l == Unwrap(input.allergens)
        IN  /\ StoredAllergensValid
            /\ (\E i \in 1..Len(l) : ~IsBlank(l[i]) /\ ~NamesAllergen(l[i])) =>
                  (obj = None /\ "allergens" \in ErrorLocs)
            /\ (\A i \in 1..Len(l) : IsBlank(l[i]) \/ NamesAllergen(l[i])) =>
                  /\ "allergens" \notin ErrorLocs
                  /\ obj # None =>
                        Len(The(The(obj).allergens)) =
                            Cardinality({i \in 1..Len(l) : ~IsBlank(l[i])})

C2_Witness ==
    /\ FullRequest
    /\ Supplied(input.allergens)
    /\ \E i, j \in 1..Len(Unwrap(input.allergens)) :
          /\ NamesAllergen(Unwrap(input.allergens)[i])
          /\ ~IsBlank(Unwrap(input.allergens)[j])
          /\ ~NamesAllergen(Unwrap(input.allergens)[j])
    /\ obj = None
    /\ ErrorLocs = {"allergens"}

(***************************************************************************)
(* C3                                                                      *)
(***************************************************************************)
FiltersRequest == op = "construct" /\ cls = "RecipeSearchFilters"

PairAccepted(lo, hi) == lo \notin ErrorLocs /\ hi \notin ErrorLocs

\* without its sibling a member is judged by its own bound alone
NoOrderingCheck(lo, hi) ==
    (~Supplied(input[lo]) \/ ~Supplied(input[hi])) =>
        /\ lo \in ErrorLocs <=> (Supplied(input[lo]) /\ Unwrap(input[lo]) < 0)
        /\ hi \in ErrorLocs <=> (Supplied(input[hi]) /\ Unwrap(input[hi]) < 0)

IsNonBlankTrimmed(w, l) ==
    LET nb == {i \in 1..Len(l) : ~IsBlank(l[i])}
    IN  /\ Len(w) = Cardinality(nb)
        /\ \A i \in nb : IsCoreOf(w[Cardinality({j \in nb : j <= i})], l[i])

\* C4: a list with a non-blank entry is accepted and stored as its non-blank
\* entries, trimmed, in order, duplicates kept; an empty or all-blank list
\* fails with 'Ingredients list cannot be empty if provided'; an absent or
\* null list stays null.
C4_Ingredients ==
    FullRequest =>
        IF Supplied(input.ingredients)
        THEN LET l == Unwrap(input.ingredients)
             IN  IF \E i \in 1..Len(l) : ~IsBlank(l[i])
                 THEN /\ "ingredients" \notin ErrorLocs
                      /\ errors = {} => obj # None
                      /\ obj # None =>
                            /\ The(obj).ingredients # None
                            /\ IsNonBlankTrimmed(The(The(obj).ingredients), l)
                 ELSE /\ obj = None
                      /\ [loc |-> "ingredients",
                          msg |-> "Ingredients list cannot be empty if provided",
                          ctx |-> <<>>] \in errors
        ELSE /\ "ingredients" \notin ErrorLocs
             /\ obj # None => The(obj).ingredients = None

C4_Witness ==
    /\ FullRequest
    /\ obj # None
    /\ Supplied(input.ingredients)
    /\ Len(Unwrap(input.ingredients)) = 3
    /\ Len(The(The(obj).ingredients)) = 2
    /\ The(The(obj).ingredients)[1] = The(The(obj).ingredients)[2]
    /\ IsBlank(Unwrap(input.ingredients)[1])

(***************************************************************************)
(* C5: attribute assignment.  The classes derive from BaseModel and their  *)
(* model_config sets neither frozen nor validate_assignment, so a field of *)
(* a constructed object can be assigned, unvalidated.                      *)
(***************************************************************************)
AssignableValues(c, f) ==
    CASE c = "RecipeSearchFilters" ->
            IF f \in {"min_calories", "max_calories", "min_protein", "max_protein"}
            THEN {None} \cup {Some(n) : n \in -1..MaxAmount}
            ELSE {}
      [] c = "QuickMealFilters" ->
            CASE f = "max_prep_time" -> {max_prep_time_ge - 1, max_prep_time_le + 1}
              [] f = "max_ingredients" -> {max_ingredients_ge - 1, max_ingredients_le + 1}
              [] f = "max_cost" -> {max_cost_ge - 1, max_cost_le + 1}
              [] OTHER -> {}
      [] OTHER -> {}

\* obj.f = v
SetAttr ==
    /\ op = "construct"
    /\ obj # None
    /\ \E f \in DOMAIN The(obj) : \E v \in AssignableValues(cls, f) :
          obj' = Some([The(obj) EXCEPT ![f] = v])
    /\ op' = "setattr"
    /\ prev' = obj
    /\ UNCHANGED <<cls, input, errors>>

NextAssign ==
    \/ ConstructRecipeSearchFilters
    \/ ConstructQuickMealFilters
    \/ SetAttr

SpecAssign == Init /\ [][NextAssign]_vars

OrderedOrMissing(lo, hi) == lo = None \/ hi = None \/ The(hi) >= The(lo)
NonNegativeOrMissing(x) == x = None \/ The(x) >= 0

\* C5 as stated: once an object is constructed its fields never change, so
\* the constraints that held at construction (numeric bounds, max >= min)
\* hold of the object in every later state.
C5_ConstraintsKept ==
    obj # None =>
        LET o == The(obj)
        IN  /\ cls = "RecipeSearchFilters" =>
                /\ NonNegativeOrMissing(o.min_calories)
                /\ NonNegativeOrMissing(o.max_calories)
                /\ NonNegativeOrMissing(o.min_protein)
                /\ NonNegativeOrMissing(o.max_protein)
                /\ OrderedOrMissing(o.min_calories, o.max_calories)
                /\ OrderedOrMissing(o.min_protein, o.max_protein)
            /\ cls = "QuickMealFilters" =>
                /\ o.max_prep_time \in 1..30
                /\ o.max_ingredients \in 1..10
                /\ o.max_cost \in 10..500

(***************************************************************************)
(* C6                                                                      *)
(***************************************************************************)
OutOfRange(raw, lo, hi) == raw = Null \/ (raw # Absent /\ Unwrap(raw) \notin lo..hi)

\* the fields of the payload that break their own rule
Violated(c, p) ==
    CASE c = "RecipeAnalysisRequest" ->
            {f \in {"recipe_name"} :
                \/ ~Supplied(p.recipe_name)
                \/ Len(Unwrap(p.recipe_name)) \notin 1..200
                \/ IsBlank(Unwrap(p.recipe_name))}
      [] c = "FullAnalysisRequest" ->
            {f \in {"recipe_name"} :
                \/ ~Supplied(p.recipe_name)
                \/ Len(Unwrap(p.recipe_name)) \notin 1..200
                \/ IsBlank(Unwrap(p.recipe_name))}
            \cup
            {f \in {"ingredients"} :
                /\ Supplied(p.ingredients)
                /\ \A i \in 1..Len(Unwrap(p.ingredients)) : IsBlank(Unwrap(p.ingredients)[i])}
            \cup
            {f \in {"allergens"} :
                /\ Supplied(p.allergens)
                /\ \E i \in 1..Len(Unwrap(p.allergens)) :
                      /\ ~IsBlank(Unwrap(p.allergens)[i])
                      /\ ~NamesAllergen(Unwrap(p.allergens)[i])}
      [] c = "QuickMealFilters" ->
            {f \in {"max_prep_time"} : OutOfRange(p.max_prep_time, 1, 30)}
            \cup {f \in {"max_ingredients"} : OutOfRange(p.max_ingredients, 1, 10)}
            \cup {f \in {"max_cost"} : OutOfRange(p.max_cost, 10, 500)}
            \cup {f \in {"hostel_friendly"} : p.hostel_friendly = Null}
      [] c = "RecipeSearchFilters" ->
            {f \in {"min_calories", "min_protein"} : Supplied(p[f]) /\ Unwrap(p[f]) < 0}
            \cup
            {f \in {"max_calories"} :
                /\ Supplied(p[f])
                /\ \/ Unwrap(p[f]) < 0
                   \/ Supplied(p.min_calories) /\ Unwrap(p[f]) < Unwrap(p.min_calories)}
            \cup
            {f \in {"max_protein"} :
                /\ Supplied(p[f])
                /\ \/ Unwrap(p[f]) < 0
                   \/ Supplied(p.min_protein) /\ Unwrap(p[f]) < Unwrap(p.min_protein)}
      [] c = "RecipeRecommendation" ->
            {f \in {"similarity_score", "health_score"} :
                ~Supplied(p[f]) \/ Unwrap(p[f]) < 0 \/ Unwrap(p[f]) > 100 * ScoreScale}
            \cup
            {f \in {"relevance_score"} :
                Supplied(p[f]) /\ (Unwrap(p[f]) < 0 \/ Unwrap(p[f]) > 100 * ScoreScale)}
            \cup {f \in {"reason"} : ~Supplied(p.reason)}
            \cup
            {f \in {"recipe"} :
                \/ ~Supplied(p.recipe)
                \/ ~Supplied(Unwrap(p.recipe).id)
                \/ ~Supplied(Unwrap(p.recipe).name)
                \/ Unwrap(p.recipe).ingredients = Null}

\* C6: the fields named in the failure of a construction are exactly the
\* fields of the payload that break their rule, however many break it at
\* once; an object is produced only when none does.
C6_EveryOffendingField ==
    op = "construct" =>
        /\ ErrorLocs = Violated(cls, input)
        /\ Cardinality(errors) = Cardinality(ErrorLocs)
        /\ obj = None <=> Violated(cls, input) # {}

C6_Witness ==
    /\ FullRequest
    /\ obj = None
    /\ ErrorLocs = {"recipe_name", "ingredients", "allergens"}
    /\ Supplied(input.recipe_name)
    /\ IsBlank(Unwrap(input.recipe_name))
    /\ Len(Unwrap(input.recipe_name)) > 0

(***************************************************************************)
(* C7                                                                      *)
(***************************************************************************)
AllTrimmed(o) == o = None \/ \A i \in 1..Len(The(o)) : IsTrimmed(The(o)[i])

\* C7 as stated: no stored entry of ingredients, allergens or
\* avoid_ingredients has leading or trailing whitespace.
C7_AllListsTrimmed ==
    (FullRequest /\ obj # None) =>
        /\ AllTrimmed(The(obj).ingredients)
        /\ AllTrimmed(The(obj).allergens)
        /\ AllTrimmed(The(obj).avoid_ingredients)

\* C7 amended: no stored entry of ingredients or allergens has leading or
\* trailing whitespace; avoid_ingredients is stored as it was given.
C7_ValidatedListsTrimmed ==
    (FullRequest /\ obj # None) =>
        /\ AllTrimmed(The(obj).ingredients)
        /\ AllTrimmed(The(obj).allergens)
        /\ The(obj).avoid_ingredients =
              (IF Supplied(input.avoid_ingredients)
               THEN Some(Unwrap(input.avoid_ingredients)) ELSE None)

C7_Witness ==
    /\ FullRequest
    /\ obj # None
    /\ Supplied(input.ingredients)
    /\ \E i \in 1..Len(Unwrap(input.ingredients)) :
          /\ ~IsBlank(Unwrap(input.ingredients)[i])
          /\ ~IsTrimmed(Unwrap(input.ingredients)[i])

(***************************************************************************)
(* C8                                                                      *)
(***************************************************************************)
\* C8: QuickMealFilters with no field supplied succeeds with max_prep_time 5,
\* max_ingredients 3, max_cost 100, hostel_friendly true, cuisine and
\* diet_type null, and each default lies within the bounds of its field.
C8_Defaults ==
    (op = "construct" /\ cls = "QuickMealFilters"
        /\ \A f \in DOMAIN input : input[f] = Absent) =>
        /\ obj = Some([max_prep_time |-> 5, max_ingredients |-> 3, max_cost |-> 100,
                       hostel_friendly |-> TRUE, cuisine |-> None, diet_type |-> None])
        /\ max_prep_time_ge = 1 /\ max_prep_time_le = 30
        /\ max_ingredients_ge = 1 /\ max_ingredients_le = 10
        /\ max_cost_ge = 10 /\ max_cost_le = 500
        /\ The(obj).max_prep_time \in max_prep_time_ge..max_prep_time_le
        /\ The(obj).max_ingredients \in max_ingredients_ge..max_ingredients_le
        /\ The(obj).max_cost \in max_cost_ge..max_cost_le

C8_Witness ==
    /\ op = "construct"
    /\ cls = "QuickMealFilters"
    /\ \A f \in DOMAIN input : input[f] = Absent
    /\ obj # None

(***************************************************************************)
(* C9                                                                      *)
(***************************************************************************)
InClosedRange(x) == 0 <= x /\ x <= 100 * ScoreScale

\* C9: similarity_score and health_score are accepted exactly when they lie
\* in the closed range [0, 100], relevance_score exactly when it is absent,
\* null or in that range, each whatever the other fields hold.
C9_ClosedScoreRange ==
    (op = "construct" /\ cls = "RecipeRecommendation") =>
        /\ \A f \in {"similarity_score", "health_score"} :
              f \notin ErrorLocs <=> (Supplied(input[f]) /\ InClosedRange(Unwrap(input[f])))
        /\ "relevance_score" \notin ErrorLocs <=>
              (~Supplied(input.relevance_score)
                  \/ InClosedRange(Unwrap(input.relevance_score)))
        /\ obj # None =>
              /\ The(obj).similarity_score = Unwrap(input.similarity_score)
              /\ The(obj).health_score = Unwrap(input.health_score)
              /\ The(obj).relevance_score =
                    (IF Supplied(input.relevance_score)
                     THEN Some(Unwrap(input.relevance_score)) ELSE None)

C9_Witness ==
    /\ op = "construct"
    /\ cls = "RecipeRecommendation"
    /\ obj # None
    /\ The(obj).similarity_score = 100 * ScoreScale
    /\ The(obj).health_score = 0
    /\ The(obj).relevance_score = None

(***************************************************************************)
(* C10                                                                     *)
(***************************************************************************)
\* C10: constructing again from the stored fields of a constructed
\* FullAnalysisRequest, RecipeAnalysisRequest or RecipeSearchFilters succeeds
\* and gives an object with the same fields.
C10_Idempotent ==
    (op = "rebuild"
        /\ cls \in {"FullAnalysisRequest", "RecipeAnalysisRequest", "RecipeSearchFilters"}) =>
        /\ errors = {}
        /\ obj # None
        /\ obj = prev

C10_Witness ==
    /\ op = "rebuild"
    /\ cls = "FullAnalysisRequest"
    /\ obj # None
    /\ The(prev).ingredients # None
    /\ The(prev).allergens # None
    /\ The(prev).avoid_ingredients # None

====
